---- MODULE Spec2Model ----
(***************************************************************************)
(* Upload-by-URL service: POST /files/upload takes a list of URLs; each    *)
(* URL is downloaded to a temp file, uploaded to Google Drive and recorded *)
(* in the database.  The model follows the two FileService variants of the *)
(* repository (p-limit limiter, fixed-size batches), the per-URL retry     *)
(* loop, uploadSingleFile with its temp file, GoogleDriveService.uploadFile*)
(* with its token refresh, and the two URL validation layers.              *)
(*                                                                         *)
(* A step of the model is one turn of the Node event loop: the completion  *)
(* of one pending I/O (or timer, or limiter microtask) together with the   *)
(* whole synchronous continuation the code runs on it.                     *)
(***************************************************************************)
EXTENDS Integers, Sequences, FiniteSets, TLC

\* ------------------------------------------------------------------ bounds
MaxUrls    == 3     \* longest request body explored
MaxCap     == 2     \* largest MAX_CONCURRENT_UPLOADS explored
MaxRefresh == 2     \* token refreshes one unit may go through before the
                    \* provider stops answering with authentication errors

MaxOver    == 2     \* how far beyond @ArrayMaxSize a request body may go
MaxLists   == 2     \* most GET /files requests during one upload request
MaxCount   == 16    \* the counters of provider calls, refreshes and tokens
                    \* granted stop counting here
MaxPool    == 4     \* most URLs that concurrent uploadFiles calls hold together
MaxSplit   == 5     \* most iterations of the batch-splitting loop explored

\* -------------------------------------------------------- program constants
MAX_RETRIES          == 3
INITIAL_BACKOFF_TIME == 1000
MAX_BACKOFF_TIME     == 60000
ArrayMaxSize         == 10
BAD_REQUEST          == 400
INTERNAL_SERVER_ERROR == 500
CREATED              == 201
CHUNK_SIZE           == 5242880
MAX_FILE_SIZE        == 104857600

RetryableCodes    == {"ECONNRESET", "ETIMEDOUT"}
RetryableStatuses == {429, 500, 502, 503, 504}

\* part_002: the DTO's lists (extensions without the dot)
SUPPORTED_FILE_EXTENSIONS ==
  {"pdf", "doc", "docx", "xls", "xlsx", "ppt", "pptx", "txt", "csv",
   "jpg", "jpeg", "png", "gif", "bmp", "svg", "webp",
   "mp3", "mp4", "avi", "mov", "wmv", "zip", "rar", "tar", "gz"}
DANGEROUS_FILE_EXTENSIONS ==
  {"exe", "bat", "cmd", "sh", "php", "js", "jar", "dll", "vbs", "ps1"}
\* part_000: the list inlined in validateFileUrls (extensions after the dot)
ServiceExtensions ==
  {"jpg", "jpeg", "png", "gif", "pdf", "doc", "docx", "xls", "xlsx", "txt",
   "csv", "mp3", "mp4", "avi", "mov", "zip", "rar"}

\* --------------------------------------------------------------------- URLs
\* A URL is the sequence of its lexical tokens: scheme, "://", host labels
\* separated by ".", then "/"-separated path segments, "?" and the query.
Min(a, b) == IF a < b THEN a ELSE b

\* index of the first occurrence of one of toks at or after from, 0 if none
RECURSIVE FirstIndex(_, _, _)
FirstIndex(s, toks, from) ==
  IF from > Len(s) THEN 0
  ELSE IF s[from] \in toks THEN from
  ELSE FirstIndex(s, toks, from + 1)

\* index of the last occurrence of tok in s, 0 if none
RECURSIVE LastIndex(_, _, _)
LastIndex(s, tok, upto) ==
  IF upto = 0 THEN 0
  ELSE IF s[upto] = tok THEN upto
  ELSE LastIndex(s, tok, upto - 1)

\* String.prototype.toLowerCase on a token
ToLower(t) ==
  CASE t = "PDF" -> "pdf"
    [] t = "EXE" -> "exe"
    [] OTHER -> t
LowerAll(s) == [k \in 1..Len(s) |-> ToLower(s[k])]

\* new URL(url): accepts any scheme followed by "://" and a non-empty rest
UrlParses(u) == Len(u) >= 3 /\ u[2] = "://" /\ u[1] \notin {"/", ".", "?", "#", "://"}

\* new URL(url).pathname, as tokens; "/" when the URL has no path
Pathname(u) ==
  LET start == FirstIndex(u, {"/", "?", "#"}, 3)
      stop  == FirstIndex(u, {"?", "#"}, 3)
      last  == IF stop = 0 THEN Len(u) ELSE stop - 1
  IN IF start = 0 \/ u[start] # "/" THEN <<"/">>
     ELSE SubSeq(u, start, last)

\* extractFileNameFromUrl: the text after the last "/" of the pathname
extractFileNameFromUrl(u) ==
  IF ~UrlParses(u) THEN <<"unknown-file">>
  ELSE LET p    == Pathname(u)
           name == SubSeq(p, LastIndex(p, "/", Len(p)) + 1, Len(p))
       IN IF name = <<>> THEN <<"unknown-file">> ELSE name

\* path.extname: from the last "." of the name to its end; empty when the
\* name has no "." or its only "." is its first character
extname(name) ==
  LET d == LastIndex(name, ".", Len(name))
  IN IF d <= 1 THEN <<>> ELSE SubSeq(name, d, Len(name))

\* the reason validateFileUrls pushes for one URL, "" when it pushes none
ServiceReason(u) ==
  IF ~UrlParses(u) THEN "Invalid URL format"
  ELSE LET fileExtension == LowerAll(extname(extractFileNameFromUrl(u)))
       IN IF fileExtension = <<>> \/ fileExtension = <<".">>
          THEN "Missing file extension"
          ELSE IF ~(Len(fileExtension) = 2 /\ fileExtension[2] \in ServiceExtensions)
          THEN "File extension is not supported"
          ELSE ""

\* validateFileUrls: the indexes of the URLs it reports
InvalidUrls(list) == {k \in 1..Len(list) : ServiceReason(list[k].url) # ""}

\* the DTO's @Transform on one URL: url.toLowerCase().split('.').pop()
DtoExtension(u) ==
  LET l == LowerAll(u)
  IN SubSeq(l, LastIndex(l, ".", Len(l)) + 1, Len(l))
\* "" when the transform returns the URL, else why it throws
DtoTransformError(u) ==
  LET extension == DtoExtension(u)
  IN IF Len(extension) = 1 /\ extension[1] \in DANGEROUS_FILE_EXTENSIONS
     THEN "not allowed for security reasons"
     ELSE IF ~(Len(extension) = 1 /\ extension[1] \in SUPPORTED_FILE_EXTENSIONS)
     THEN "not supported"
     ELSE ""
\* @IsUrl({protocols: ['http','https'], require_protocol: true}): an http(s)
\* scheme and a host with a top-level domain
IsUrl(u) ==
  /\ Len(u) >= 5
  /\ u[1] \in {"http", "https"}
  /\ u[2] = "://"
  /\ u[3] \notin {"/", ".", "?", "#"}
  /\ u[4] = "."
  /\ u[5] \notin {"/", ".", "?", "#"}

\* ------------------------------------------------------------------ errors
\* A JavaScript error value, by the properties the code reads from it:
\* kind: "axios" (isAxiosError), "http" (Nest HttpException), "error";
\* code: error.code when it is a string, num: error.code when a number;
\* hasResponse: error.response is truthy, status: error.response.status
\* (0 = undefined); msg / n: the message and the number it embeds.
NoError == [kind |-> "none", code |-> "", num |-> 0, hasResponse |-> FALSE,
            status |-> 0, hasRequest |-> FALSE, msg |-> "", n |-> 0]
PlainError(m) == [NoError EXCEPT !.kind = "error", !.msg = m]
\* axios rejecting on a status outside validateStatus's 2xx
AxiosStatusError(s) ==
  [NoError EXCEPT !.kind = "axios", !.hasResponse = TRUE, !.status = s,
                  !.hasRequest = TRUE, !.msg = "Request failed with status code", !.n = s]
\* axios rejecting because no response arrived
AxiosNetworkError(c) ==
  [NoError EXCEPT !.kind = "axios", !.code = c, !.hasRequest = TRUE, !.msg = c]
\* new HttpException(message, 400): response holds the message string, so
\* response.status is undefined, and the exception has no code
HttpException(m, k) ==
  [NoError EXCEPT !.kind = "http", !.hasResponse = TRUE, !.msg = m, !.n = k]

MsgNoFileId      == "File ID was not returned from Google Drive"
MsgAuthRequired  == "Authentication required. Please visit /auth/google to authenticate."
MsgAuthExpired   == "Authentication expired. Please visit /auth/google to re-authenticate with Google Drive."
MsgNoRefresh     == "No refresh token available, re-authentication required"
MsgInvalidCreds  == "Invalid Credentials"
MsgBackend       == "Backend Error"
MsgRefreshDenied == "invalid_grant"
MsgDbDown        == "Can't reach database server"
MsgStreamBroken  == "aborted"
\* String.prototype.includes for the three needles of uploadFile's test
Includes_anything(m, needle) == TRUE
Includes(m, needle) ==
  CASE needle = "auth"  -> m \in {MsgAuthRequired, MsgAuthExpired, MsgNoRefresh}
    [] needle = "token" -> m \in {MsgNoRefresh}
    [] needle = "Authentication required" -> m \in {MsgAuthRequired}
    [] OTHER -> FALSE

\* processFileUpload / uploadSingleFileWithRetry: isRetryable
isRetryable_always(error) == TRUE
isRetryable(error) ==
  \/ error.code = "ECONNRESET"
  \/ error.code = "ETIMEDOUT"
  \/ (error.hasResponse /\ error.status \in RetryableStatuses)

\* uploadSingleFile's outer catch: every error leaves as an HttpException
WrapError(error) ==
  IF error.kind = "axios" /\ error.hasResponse
    THEN HttpException("Failed to download file: Server responded with status", error.status)
  ELSE IF error.kind = "axios" /\ error.hasRequest
    THEN HttpException("Failed to download file: No response received from server", 0)
  ELSE HttpException("Failed to upload file: " \o error.msg, 0)

\* GoogleDriveService.uploadFile: the test that starts a token refresh
IsAuthError_never(error) == FALSE
IsAuthError(error) ==
  \/ error.num = 401
  \/ Includes(error.msg, "auth")
  \/ Includes(error.msg, "token")
  \/ Includes(error.msg, "Authentication required")

\* ------------------------------------------------------- the environment
\* What the outside world answers for one URL of a request: the download
\* server's answer to each successive GET (the last one repeats), the
\* provider's answer to each successive files.create (the last one
\* repeats: <<"auth">> is a provider no new token satisfies), whether
\* the token endpoint grants a refresh, whether the insert succeeds,
\* whether the temp file's open is slower than the start of the request,
\* the number of bytes of a complete body and the content-length header
\* the server declares for it (0: no header).
Ok200        == [status |-> 200, code |-> "", partial |-> FALSE]
Http(s)      == [status |-> s,   code |-> "", partial |-> FALSE]
Net(c)       == [status |-> 0,   code |-> c,  partial |-> FALSE]
BrokenBody   == [status |-> 200, code |-> "ECONNRESET", partial |-> TRUE]

UrlPdf   == <<"https", "://", "h", ".", "com", "/", "a", ".", "pdf">>
UrlUpper == <<"https", "://", "h", ".", "com", "/", "d", "/", "a", ".", "PDF">>
UrlExe   == <<"https", "://", "h", ".", "com", "/", "a", ".", "exe">>
UrlNoExt == <<"https", "://", "h", ".", "com", "/", "a">>
UrlBad   == <<"not a url">>
UrlPpt   == <<"https", "://", "h", ".", "com", "/", "a", ".", "ppt">>
UrlQuery == <<"https", "://", "h", ".", "com", "/", "a", ".", "exe", "?", "v", ".", "pdf">>
UrlFtp   == <<"ftp", "://", "h", ".", "com", "/", "a", ".", "pdf">>

Item(u, a, d, r, b) ==
  [url |-> u, answers |-> a, drive |-> d, refreshOk |-> r, db |-> b, openLate |-> FALSE,
   bytes |-> 1024, declared |-> 1024]
Healthy(u) == Item(u, <<Ok200>>, <<"id">>, TRUE, TRUE)
NotFound(u) == Item(u, <<Http(404)>>, <<"id">>, TRUE, TRUE)
\* the same, when the write stream's open of the temp file is still pending
\* in the thread pool while the request goes on
OpenLate(item) == [item EXCEPT !.openLate = TRUE]

RECURSIVE Repeat(_, _)
Repeat(x, k) == IF k = 0 THEN <<>> ELSE <<x>> \o Repeat(x, k - 1)

AnswerScripts ==
  {<<Ok200>>, <<BrokenBody>>, <<Http(404)>>, <<Http(403)>>,
   <<Http(503), Http(503), Ok200>>, <<Http(503)>>, <<Http(500)>>, <<Http(429)>>,
   <<Http(502)>>, <<Http(504)>>,
   <<Net("ECONNRESET")>>, <<Net("ETIMEDOUT")>>, <<Net("ECONNABORTED")>>}
DriveScripts ==
  {Repeat("auth", k) \o <<x>> : k \in 0..MaxRefresh, x \in {"id", "noid", "error"}}

\* bodies on both sides of the chunked-upload threshold and of the
\* configured maximum, with a header that is absent, exact or wrong
Sizes == {1024, CHUNK_SIZE + 1, MAX_FILE_SIZE + 1}
SizedItems ==
  {[Healthy(UrlPdf) EXCEPT !.bytes = n, !.declared = h] : n \in Sizes, h \in {0} \cup Sizes}

\* every behaviour of the outside world for one valid URL
UnitItems ==
  LET prompt == {Item(UrlPdf, a, d, r, b) :
                   a \in AnswerScripts, d \in DriveScripts, r \in BOOLEAN, b \in BOOLEAN}
  IN prompt \cup {OpenLate(it) : it \in prompt} \cup SizedItems
\* the URLs a request body is drawn from when the whole request is explored
BatchItems ==
  {Healthy(UrlPdf), OpenLate(NotFound(UrlPdf)),
   Item(UrlPdf, <<Ok200>>, <<"auth", "id">>, FALSE, TRUE),
   Healthy(UrlExe), Healthy(UrlNoExt), Healthy(UrlBad), NotFound(UrlPpt),
   NotFound(UrlQuery), Healthy(UrlFtp)}

AnswerAt(item, call) == item.answers[Min(call, Len(item.answers))]
DriveAnswerAt(item, call) == item.drive[Min(call, Len(item.drive))]
\* a counter of the model, which stops at MaxCount
Bump(n) == IF n < MaxCount THEN n + 1 ELSE n

\* ------------------------------------------------------------------- state
VARIABLES
  body,           \* the fileUrls of the request body, with their environment
  variant,        \* "plimit" (part_000) or "batch" (part_001) FileService
  cap,            \* MAX_CONCURRENT_UPLOADS
  phase,          \* "pending", "running" (service at work), "responded"
  response,       \* the HTTP answer of POST /files/upload
  unit,           \* per URL of the batch: the state of its retry unit
  activeCount,    \* p-limit: units running
  queue,          \* p-limit: units enqueued, not yet run
  pendingChecks,  \* p-limit: enqueue microtasks not yet run
  uploadedFiles,  \* batch variant: accumulator of successes
  failedUploads,  \* batch variant: accumulator of failures
  store,          \* the File table, in insertion order
  logged,         \* units whose failure logger.error has recorded
  files,          \* temp files that exist on disk, <<unit, call>>
  opens,          \* temp files whose write stream has not opened yet
  hasAccess,      \* oauth2Client.credentials.access_token is set
  hasRefresh,     \* oauth2Client.credentials.refresh_token is set
  driveInit,      \* GoogleDriveService.drive is set
  memToken,       \* the tokens in oauth2Client.credentials: 0 as loaded at
                  \* startup, n the n-th tokens granted since
  diskToken,      \* the tokens token.json holds, numbered the same way
  writes,         \* saveTokens calls whose fs.writeFile is pending
  auth,           \* the human's authorization: "none", "code" (the callback
                  \* request is under way), "saving", "done", "failed"
  tokenWritable,  \* fs.writeFile on token.json succeeds
  reported,       \* credentials and file when a refresh or a code exchange
                  \* last reported success
  lists,          \* GET /files requests that have yet to arrive
  listing,        \* the body of the last GET /files answer
  batchStart,     \* batch variant: i of the loop that splits fileUrls
  batches         \* batch variant: the batches built so far, as the
                  \* positions of their URLs in fileUrls

vars == <<body, variant, cap, phase, response, unit, activeCount, queue,
          pendingChecks, uploadedFiles, failedUploads, store, logged, files,
          opens, hasAccess, hasRefresh, driveInit, memToken, diskToken,
          writes, auth, tokenWritable, reported, lists, listing, batchStart,
          batches>>
authVars == <<memToken, diskToken, writes, auth, tokenWritable, reported>>
listVars == <<lists, listing>>
splitVars == <<batchStart, batches>>

NoResponse == [status |-> 0, records |-> <<>>, details |-> {}, error |-> NoError]

RECURSIVE SeqsUpTo(_, _)
SeqsUpTo(S, k) ==
  IF k = 0 THEN {<<>>}
  ELSE LET shorter == SeqsUpTo(S, k - 1)
       IN shorter \cup {Append(s, x) : s \in {t \in shorter : Len(t) = k - 1}, x \in S}

InitCommon ==
  /\ variant \in {"plimit", "batch"}
  /\ phase = "pending"
  /\ response = NoResponse
  /\ unit = <<>>
  /\ activeCount = 0
  /\ queue = <<>>
  /\ pendingChecks = 0
  /\ uploadedFiles = <<>>
  /\ failedUploads = <<>>
  /\ store = <<>>
  /\ logged = {}
  /\ files = {}
  /\ opens = {}
  /\ memToken = 0
  /\ diskToken = 0
  /\ writes = {}
  /\ reported = [current |-> 0, persisted |-> 0]
  /\ listing = <<>>
  /\ batchStart = 0
  /\ batches = <<>>

\* a request of up to MaxUrls URLs reaches an authenticated service
Init ==
  /\ InitCommon
  /\ body \in SeqsUpTo(BatchItems, MaxUrls)
  /\ cap \in 1..MaxCap
  /\ hasAccess = TRUE
  /\ hasRefresh = TRUE
  /\ driveInit = TRUE
  /\ tokenWritable = TRUE
  /\ auth \in {"none", "code"}
  /\ auth = "code" => Len(body) <= 1
  /\ lists \in {0, 1}
  /\ lists = 1 => Len(body) <= 1 /\ auth = "none"

\* a request of one valid URL, under every behaviour of the outside world
\* and every state of the stored credentials
InitUnit ==
  /\ InitCommon
  /\ body \in {<<it>> : it \in UnitItems}
  /\ cap = 1
  /\ hasAccess \in BOOLEAN
  /\ hasRefresh \in BOOLEAN
  /\ driveInit = hasAccess
  /\ tokenWritable \in BOOLEAN
  /\ auth \in {"none", "code"}
  /\ lists \in {0, 1}
  /\ lists = 1 => body[1] \in SizedItems /\ auth = "none" /\ hasAccess /\ tokenWritable

\* request bodies around the DTO's size limit: one URL repeated, whose
\* upload succeeds after a token refresh, optionally ending in a URL the
\* DTO's transform refuses
LargeItem == OpenLate(Item(UrlPdf, <<Ok200>>, <<"auth", "id">>, TRUE, TRUE))
LargeBodies ==
  LET sizes == (ArrayMaxSize - 1)..(ArrayMaxSize + MaxOver)
  IN {Repeat(LargeItem, n) : n \in sizes}
     \cup {Append(Repeat(LargeItem, n - 1), Healthy(UrlExe)) : n \in sizes}

\* a request around the size limit reaches an authenticated service that
\* runs one upload at a time; the fixed-batch variant, which starts every
\* unit of a body at once, is explored on the bodies above the limit
InitLarge ==
  /\ InitCommon
  /\ body \in LargeBodies
  /\ variant = "batch" => Len(body) > ArrayMaxSize
  /\ cap = 1
  /\ hasAccess = TRUE
  /\ hasRefresh = TRUE
  /\ driveInit = TRUE
  /\ tokenWritable = TRUE
  /\ auth \in {"none", "code"}
  /\ lists \in {0, 1}
  /\ lists = 1 => Len(body) = ArrayMaxSize /\ auth = "none"

\* a request of up to MaxUrls valid URLs, some of which lose their insert
\* (or one URL whose upload needs a token refresh), while a client lists
\* the files; the fixed-batch variant does not depend on the cap
ListItems ==
  {Healthy(UrlPdf), Item(UrlPdf, <<Ok200>>, <<"id">>, TRUE, FALSE)}
InitList ==
  /\ InitCommon
  /\ body \in SeqsUpTo(ListItems, MaxUrls) \cup {<<LargeItem>>}
  /\ cap \in 1..MaxCap
  /\ variant = "batch" => cap = 1
  /\ hasAccess = TRUE
  /\ hasRefresh = TRUE
  /\ driveInit = TRUE
  /\ tokenWritable = TRUE
  /\ auth \in {"none", "code"}
  /\ auth = "code" => Len(body) <= 1
  /\ lists \in 1..MaxLists

\* a request reaches a service that started without token.json: no
\* credentials, and onModuleInit could not build the drive client; the
\* human is going through the consent screen meanwhile
InitReauth ==
  /\ InitCommon
  /\ body \in SeqsUpTo({Healthy(UrlPdf)}, MaxUrls) \cup {<<LargeItem>>}
  /\ cap \in 1..MaxCap
  /\ variant = "batch" => cap = 1
  /\ hasAccess = FALSE
  /\ hasRefresh = FALSE
  /\ driveInit = FALSE
  /\ tokenWritable \in BOOLEAN
  /\ auth = "code"
  /\ lists \in {0, 1}
  /\ lists = 1 => Len(body) <= 1

\* a validated request of up to MaxCap URLs in which every download,
\* provider call, token exchange and insert is answered, one of the URLs
\* being refused by the provider whatever the token
Unsatisfied == OpenLate(Item(UrlPdf, <<Ok200>>, <<"auth">>, TRUE, TRUE))
InitLive ==
  /\ InitCommon
  /\ body \in SeqsUpTo({Healthy(UrlPdf), Unsatisfied}, MaxCap) \ {<<>>}
  /\ cap = 1
  /\ hasAccess = TRUE
  /\ hasRefresh = TRUE
  /\ driveInit = TRUE
  /\ tokenWritable = TRUE
  /\ auth \in {"none", "code"}
  /\ lists \in {0, 1}
  /\ lists = 1 \/ auth = "code" => Len(body) <= 1

\* -------------------------------------------------------- the per-URL unit
\* processFileUpload / uploadSingleFileWithRetry, with the uploadSingleFile
\* call it is waiting on.  pc: "queued" (not run yet), "download" (axios
\* request pending), "stream" (body being piped to the temp file), "drive"
\* (files.create pending), "refresh" (token exchange pending), "db" (insert
\* pending), "wait" (backoff timer pending), "ok", "failed" (settled).
NoId == <<>>
NewUnit ==
  [pc |-> "queued", attempt |-> 0, delay |-> INITIAL_BACKOFF_TIME, waits |-> <<>>,
   calls |-> 0, lastError |-> NoError, driveCalls |-> 0, refreshes |-> 0,
   downloaded |-> FALSE, fileId |-> NoId, file |-> 0, size |-> 0]

Settled(u) == u.pc \in {"ok", "failed"}
InFlight(u) == u.pc \notin {"queued", "ok", "failed"}
TempPath(i, u) == <<i, u.calls>>

\* the loop body's call of uploadSingleFile up to its first pending I/O:
\* createTempFilePath, createWriteStream, the axios request
Begin(u) ==
  [u EXCEPT !.pc = "download", !.calls = @ + 1, !.downloaded = FALSE,
            !.fileId = NoId, !.driveCalls = 0, !.refreshes = 0, !.size = 0]

\* downloadFile: fileMetadata.size from the response's content-length header
ContentLength(item) == item.declared
\* downloadFile, on the write stream's 'finish': the size fs.stat reports
\* for the temp file, which holds the whole body
StatSize_fromHeader(item) == item.declared
StatSize(item) == item.bytes

\* the retry loop's catch block, on the error uploadSingleFile threw
Caught_waitsAfterLast(u, error) ==
  IF ~isRetryable(error)
    THEN [u EXCEPT !.lastError = error, !.pc = "failed"]
  ELSE [u EXCEPT !.lastError = error, !.attempt = @ + 1, !.pc = "wait",
                 !.waits = Append(@, u.delay)]
Caught(u, error) ==
  IF ~isRetryable(error)
    THEN [u EXCEPT !.lastError = error, !.pc = "failed"]
  ELSE IF u.attempt + 1 < MAX_RETRIES
    THEN [u EXCEPT !.lastError = error, !.attempt = @ + 1, !.pc = "wait",
                   !.waits = Append(@, u.delay)]
  ELSE [u EXCEPT !.lastError = error, !.attempt = @ + 1, !.pc = "failed"]

\* uploadSingleFile rejecting with raw: the inner catch has removed the temp
\* file if fs.access found it, the outer catch wraps the error
Rejected(u, raw) == Caught(u, WrapError(raw))

\* the timer of the backoff wait fired: the delay doubles, the loop goes on
NextDelay(delay) == Min(delay * 2, MAX_BACKOFF_TIME)
Retried(u) == Begin([u EXCEPT !.delay = NextDelay(@)])

\* GoogleDriveService.uploadFile's catch block on error: a refresh when the
\* error looks like an authentication error, else the error itself.
\* refreshAccessToken rejects at once when there is no refresh token, and
\* the catch around it throws the re-authentication error.
DriveFailed(u, error, refreshToken) ==
  IF IsAuthError(error)
    THEN IF refreshToken THEN [u EXCEPT !.pc = "refresh"]
         ELSE Rejected(u, PlainError(MsgAuthExpired))
  ELSE Rejected(u, error)

\* GoogleDriveService.uploadFile up to its first pending I/O: getDriveClient
\* (initializeDriveClient when the client is not set), then files.create
DriveEntered_startupOnly(u, client, accessToken, refreshToken) ==
  IF client
    THEN [u EXCEPT !.pc = "drive", !.driveCalls = Bump(@)]
  ELSE DriveFailed(u, PlainError(MsgAuthRequired), refreshToken)
DriveEntered(u, client, accessToken, refreshToken) ==
  IF client \/ accessToken
    THEN [u EXCEPT !.pc = "drive", !.driveCalls = Bump(@)]
  ELSE DriveFailed(u, PlainError(MsgAuthRequired), refreshToken)

\* uploadFile's test on the provider's response
HasFileId_unchecked(id) == TRUE
HasFileId(id) == id # NoId

\* the end of the fixed-batch uploadFiles, once every batch has been awaited
BatchOutcome_neverFails(uploaded, failed) ==
  [NoResponse EXCEPT !.status = CREATED, !.records = uploaded]
BatchOutcome_failsOnAnyFailure(uploaded, failed) ==
  IF Len(failed) > 0
    THEN [NoResponse EXCEPT !.status = BAD_REQUEST,
            !.details = {failed[k] : k \in 1..Len(failed)},
            !.error = HttpException("All file uploads failed", 0)]
  ELSE [NoResponse EXCEPT !.status = CREATED, !.records = uploaded]
BatchOutcome(uploaded, failed) ==
  IF Len(failed) > 0 /\ Len(uploaded) = 0
    THEN [NoResponse EXCEPT !.status = BAD_REQUEST,
            !.details = {failed[k] : k \in 1..Len(failed)},
            !.error = HttpException("All file uploads failed", 0)]
  ELSE [NoResponse EXCEPT !.status = CREATED, !.records = uploaded]

\* the end of the p-limit uploadFiles: Promise.all over the units, in input
\* order, rejecting with the first rejection
RECURSIVE Files(_, _)
Files(us, k) ==
  IF k > Len(us) THEN <<>>
  ELSE (IF us[k].file # 0 THEN <<us[k].file>> ELSE <<>>) \o Files(us, k + 1)
LimitOutcome_firstFile(us, i) ==
  IF us[i].pc = "failed"
    THEN [NoResponse EXCEPT !.status = BAD_REQUEST]
  ELSE [NoResponse EXCEPT !.status = CREATED, !.records = <<us[1].file>>]
LimitOutcome(us, i) ==
  IF us[i].pc = "failed"
    THEN [NoResponse EXCEPT !.status = BAD_REQUEST,
            !.error = HttpException("Failed to upload files: " \o us[i].lastError.msg,
                                    us[i].lastError.n)]
  ELSE [NoResponse EXCEPT !.status = CREATED, !.records = Files(us, 1)]

\* ------------------------------------------------------------ the request
\* ValidationPipe on UploadFilesDto: the @Transform throws a plain Error at
\* the first URL it refuses, which no filter of the application catches: the
\* answer is 500 "Internal server error", without details; then the
\* validators answer 400
FirstRefused(list) ==
  LET bad == {k \in 1..Len(list) : DtoTransformError(list[k].url) # ""}
  IN IF bad = {} THEN 0 ELSE CHOOSE k \in bad : \A m \in bad : k <= m
DtoOutcome_noMinSize(list) ==
  IF FirstRefused(list) # 0
    THEN [NoResponse EXCEPT !.status = INTERNAL_SERVER_ERROR]
  ELSE IF Len(list) > ArrayMaxSize \/ \E k \in 1..Len(list) : ~IsUrl(list[k].url)
    THEN [NoResponse EXCEPT !.status = BAD_REQUEST]
  ELSE NoResponse
DtoOutcome(list) ==
  IF FirstRefused(list) # 0
    THEN [NoResponse EXCEPT !.status = INTERNAL_SERVER_ERROR,
            !.error = PlainError("Internal server error")]
  ELSE IF Len(list) < 1 \/ Len(list) > ArrayMaxSize
            \/ \E k \in 1..Len(list) : ~IsUrl(list[k].url)
    THEN [NoResponse EXCEPT !.status = BAD_REQUEST]
  ELSE NoResponse

\* p-limit: the test that lets a queued unit run
LimitHasRoom_offByOne(active, concurrency) == active <= concurrency
LimitHasRoom(active, concurrency) == active < concurrency

\* FileService.uploadFiles (p-limit variant) before its await: the checks,
\* then one limit(...) per URL, each queued with a microtask pending
ValidateRejection_firstOnly(list) ==
  IF Len(list) = 0
    THEN [NoResponse EXCEPT !.status = BAD_REQUEST,
            !.error = HttpException("No file URLs provided", 0)]
  ELSE IF 1 \in InvalidUrls(list)
    THEN [NoResponse EXCEPT !.status = BAD_REQUEST,
            !.details = {[url |-> 1, reason |-> ServiceReason(list[1].url)]},
            !.error = HttpException("Invalid file URLs detected", 0)]
  ELSE NoResponse
ValidateRejection(list) ==
  IF Len(list) = 0
    THEN [NoResponse EXCEPT !.status = BAD_REQUEST,
            !.error = HttpException("No file URLs provided", 0)]
  ELSE IF InvalidUrls(list) # {}
    THEN [NoResponse EXCEPT !.status = BAD_REQUEST,
            !.details = {[url |-> k, reason |-> ServiceReason(list[k].url)] :
                           k \in InvalidUrls(list)},
            !.error = HttpException("Invalid file URLs detected", 0)]
  ELSE NoResponse

\* createWriteStream on the temp paths of attempts that begin: the files
\* whose open is still pending, and those it has already created
Pending(paths) == {p \in paths : body[p[1]].openLate}
Opened(paths) == paths \ Pending(paths)

Answer(r) ==
  /\ phase' = "responded"
  /\ response' = r
  /\ UNCHANGED <<unit, activeCount, queue, pendingChecks, uploadedFiles,
                 failedUploads, opens, files>>

\* Array.prototype.slice(from, to) on a list of n URLs, as positions
Slice(n, from, to) == [k \in 1..(Min(to, n) - Min(from, n)) |-> Min(from, n) + k]

\* the batches the splitting loop of the fixed-batch uploadFiles builds from
\* i on, for a batchSize of at least 1
RECURSIVE SplitFrom(_, _, _)
SplitFrom(n, batchSize, i) ==
  IF ~(i < n) THEN <<>>
  ELSE <<Slice(n, i, i + batchSize)>> \o SplitFrom(n, batchSize, i + batchSize)

\* POST /files/upload arrives: the pipe, the controller, and uploadFiles up
\* to its first await
PostUpload ==
  /\ phase = "pending"
  /\ IF DtoOutcome(body).status # 0
       THEN Answer(DtoOutcome(body)) /\ UNCHANGED splitVars
     ELSE IF variant = "plimit"
       THEN IF ValidateRejection(body).status # 0
              THEN Answer(ValidateRejection(body)) /\ UNCHANGED splitVars
            ELSE /\ phase' = "running"
                 /\ unit' = [k \in 1..Len(body) |-> NewUnit]
                 /\ queue' = queue \o [k \in 1..Len(body) |-> k]
                 /\ pendingChecks' = pendingChecks + Len(body)
                 /\ UNCHANGED <<response, activeCount, uploadedFiles, failedUploads,
                                opens, files>>
                 /\ UNCHANGED splitVars
     ELSE IF Len(body) = 0
       THEN Answer(BatchOutcome(uploadedFiles, failedUploads)) /\ UNCHANGED splitVars
     ELSE \* every batch's Promise.all is built, so every unit is started
          /\ phase' = "running"
          /\ unit' = [k \in 1..Len(body) |-> Begin(NewUnit)]
          /\ opens' = opens \cup Pending({<<k, 1>> : k \in 1..Len(body)})
          /\ files' = files \cup Opened({<<k, 1>> : k \in 1..Len(body)})
          /\ batches' = batches \o SplitFrom(Len(body), cap, batchStart)
          /\ batchStart' = batchStart + cap * Len(SplitFrom(Len(body), cap, batchStart))
          /\ UNCHANGED <<response, activeCount, queue, pendingChecks,
                         uploadedFiles, failedUploads>>
  /\ UNCHANGED <<body, variant, cap, store, logged, hasAccess, hasRefresh, driveInit>>
  /\ UNCHANGED authVars
  /\ UNCHANGED listVars

\* p-limit's enqueue microtask: run the head of the queue if there is room
LimitCheck ==
  /\ pendingChecks > 0
  /\ pendingChecks' = pendingChecks - 1
  /\ IF LimitHasRoom(activeCount, cap) /\ queue # <<>>
       THEN /\ activeCount' = activeCount + 1
            /\ queue' = Tail(queue)
            /\ unit' = [unit EXCEPT ![Head(queue)] = Begin(@)]
            /\ opens' = opens \cup Pending({<<Head(queue), 1>>})
            /\ files' = files \cup Opened({<<Head(queue), 1>>})
       ELSE UNCHANGED <<activeCount, queue, unit, opens, files>>
  /\ UNCHANGED <<body, variant, cap, phase, response, uploadedFiles, failedUploads,
                 store, logged, hasAccess, hasRefresh, driveInit>>
  /\ UNCHANGED authVars
  /\ UNCHANGED listVars
  /\ UNCHANGED splitVars

\* the write stream of a temp file opens it, which creates the file
FsOpen(path) ==
  /\ path \in opens
  /\ opens' = opens \ {path}
  /\ files' = files \cup {path}
  /\ UNCHANGED <<body, variant, cap, phase, response, unit, activeCount, queue,
                 pendingChecks, uploadedFiles, failedUploads, store, logged,
                 hasAccess, hasRefresh, driveInit>>
  /\ UNCHANGED authVars
  /\ UNCHANGED listVars
  /\ UNCHANGED splitVars

\* Unit i goes from its pending I/O to u2, its next pending I/O or its end;
\* started: the temp paths of the attempts it began, files1: the temp files
\* its step leaves on disk.  When it settles, the
\* limiter's next() runs the head of the queue, the accumulators of the
\* batch variant take the result, and uploadFiles resumes if that settled
\* its await.
Finish(i, u2, started, files1) ==
  LET unit1   == [unit EXCEPT ![i] = u2]
      runNext == variant = "plimit" /\ Settled(u2) /\ queue # <<>>
      j       == Head(queue)
      uploaded == IF variant = "batch" /\ u2.pc = "ok"
                    THEN Append(uploadedFiles, u2.file) ELSE uploadedFiles
      failed   == IF variant = "batch" /\ u2.pc = "failed"
                    THEN Append(failedUploads, [url |-> i, reason |-> u2.lastError.msg])
                    ELSE failedUploads
      resumes == /\ phase = "running"
                 /\ Settled(u2)
                 /\ IF variant = "plimit"
                      THEN u2.pc = "failed" \/ \A k \in DOMAIN unit1 : unit1[k].pc = "ok"
                      ELSE \A k \in DOMAIN unit1 : Settled(unit1[k])
  IN /\ unit' = IF runNext THEN [unit1 EXCEPT ![j] = Begin(@)] ELSE unit1
     /\ queue' = IF runNext THEN Tail(queue) ELSE queue
     /\ activeCount' = IF variant = "plimit" /\ Settled(u2) /\ ~runNext
                         THEN activeCount - 1 ELSE activeCount
     /\ opens' = opens \cup Pending(started \cup (IF runNext THEN {<<j, 1>>} ELSE {}))
     /\ files' = files1 \cup Opened(started \cup (IF runNext THEN {<<j, 1>>} ELSE {}))
     /\ uploadedFiles' = uploaded
     /\ failedUploads' = failed
     /\ logged' = IF u2.pc \in {"failed", "wait"} THEN logged \cup {i} ELSE logged
     /\ phase' = IF resumes THEN "responded" ELSE phase
     /\ response' = IF ~resumes THEN response
                    ELSE IF variant = "plimit" THEN LimitOutcome(unit1, i)
                    ELSE BatchOutcome(uploaded, failed)

\* the inner catch of uploadSingleFile: fs.access, then fs.unlink
CleanedUp(i) == files \ {TempPath(i, unit[i])}

\* processFileUpload resumes from the await it is suspended on: the axios
\* request of this attempt has settled, or the backoff timer has fired
Resume(i) ==
  /\ i \in DOMAIN unit
  /\ pendingChecks = 0
  /\ unit[i].pc \in {"download", "wait"}
  /\ LET u == unit[i]
         a == AnswerAt(body[i], u.calls)
     IN IF u.pc = "wait"
          THEN Finish(i, Retried(u), {<<i, u.calls + 1>>}, files)
        ELSE IF a.status >= 200 /\ a.status < 300
          THEN Finish(i, [u EXCEPT !.pc = "stream", !.size = ContentLength(body[i])],
                      {}, files)
        ELSE Finish(i, Rejected(u, IF a.status # 0 THEN AxiosStatusError(a.status)
                                   ELSE AxiosNetworkError(a.code)), {}, CleanedUp(i))
  /\ UNCHANGED <<body, variant, cap, pendingChecks, store, hasAccess, hasRefresh, driveInit>>
  /\ UNCHANGED authVars
  /\ UNCHANGED listVars
  /\ UNCHANGED splitVars

\* the piped body ends: the source stream emits 'error', or the write stream
\* emits 'finish' and uploadSingleFile goes on to GoogleDriveService.uploadFile
StreamEnds(i) ==
  /\ i \in DOMAIN unit
  /\ pendingChecks = 0
  /\ unit[i].pc = "stream"
  /\ LET u == unit[i]
         a == AnswerAt(body[i], u.calls)
         d == DriveEntered([u EXCEPT !.downloaded = TRUE, !.size = StatSize(body[i])],
                           driveInit, hasAccess, hasRefresh)
     IN IF a.partial
          THEN /\ Finish(i, Rejected(u, [PlainError(MsgStreamBroken) EXCEPT !.code = a.code]),
                         {}, CleanedUp(i))
               /\ UNCHANGED driveInit
          ELSE /\ TempPath(i, u) \notin opens
               /\ Finish(i, d, {}, IF d.pc \in {"drive", "refresh"} THEN files ELSE CleanedUp(i))
               /\ driveInit' = (driveInit \/ hasAccess)
  /\ UNCHANGED <<body, variant, cap, pendingChecks, store, hasAccess, hasRefresh>>
  /\ UNCHANGED authVars
  /\ UNCHANGED listVars
  /\ UNCHANGED splitVars

\* drive.files.create answers
DriveAnswers(i) ==
  /\ i \in DOMAIN unit
  /\ pendingChecks = 0
  /\ unit[i].pc = "drive"
  /\ LET u   == unit[i]
         ans == DriveAnswerAt(body[i], u.driveCalls)
         id  == IF ans = "id" THEN <<i, u.calls>> ELSE NoId
         u2  == IF ans \in {"id", "noid"}
                  THEN IF HasFileId(id) THEN [u EXCEPT !.pc = "db", !.fileId = id]
                       ELSE DriveFailed(u, PlainError(MsgNoFileId), hasRefresh)
                ELSE IF ans = "auth"
                  THEN DriveFailed(u, [PlainError(MsgInvalidCreds) EXCEPT !.num = 401], hasRefresh)
                ELSE DriveFailed(u, [PlainError(MsgBackend) EXCEPT !.num = 500], hasRefresh)
     IN Finish(i, u2, {}, IF u2.pc \in {"db", "refresh"} THEN files ELSE CleanedUp(i))
  /\ UNCHANGED <<body, variant, cap, pendingChecks, store, hasAccess, hasRefresh, driveInit>>
  /\ UNCHANGED authVars
  /\ UNCHANGED listVars
  /\ UNCHANGED splitVars

\* the token endpoint answers refreshAccessToken: on success the credentials
\* are set and saveTokens starts writing token.json; on failure the catch
\* around the refresh throws the re-authentication error
RefreshAnswers(i) ==
  /\ i \in DOMAIN unit
  /\ pendingChecks = 0
  /\ unit[i].pc = "refresh"
  /\ LET u == unit[i]
     IN IF body[i].refreshOk
          THEN /\ Finish(i, [u EXCEPT !.pc = "save"], {}, files)
               /\ hasAccess' = TRUE
               /\ memToken' = Bump(memToken)
               /\ writes' = writes \cup {[who |-> i, token |-> Bump(memToken)]}
          ELSE /\ Finish(i, Rejected(u, PlainError(MsgAuthExpired)), {}, CleanedUp(i))
               /\ UNCHANGED <<hasAccess, memToken, writes>>
  /\ UNCHANGED <<body, variant, cap, pendingChecks, store, hasRefresh, driveInit,
                 diskToken, auth, tokenWritable, reported>>
  /\ UNCHANGED listVars
  /\ UNCHANGED splitVars

\* GET /auth/google/callback, handleAuthCallback: the token endpoint answers
\* getToken(code).  When it grants tokens the credentials are set and
\* saveTokens starts writing; when it refuses the code, getToken throws
\* before anything is set and the controller answers the error page
CodeExchanged ==
  /\ auth = "code"
  /\ pendingChecks = 0
  /\ \/ /\ auth' = "saving"
        /\ hasAccess' = TRUE
        /\ hasRefresh' = TRUE
        /\ memToken' = Bump(memToken)
        /\ writes' = writes \cup {[who |-> 0, token |-> Bump(memToken)]}
     \/ /\ auth' = "failed"
        /\ UNCHANGED <<hasAccess, hasRefresh, memToken, writes>>
  /\ UNCHANGED <<body, variant, cap, phase, response, unit, activeCount, queue,
                 pendingChecks, uploadedFiles, failedUploads, store, logged, files,
                 opens, driveInit, diskToken, tokenWritable, reported>>
  /\ UNCHANGED listVars
  /\ UNCHANGED splitVars

\* saveTokens: fs.writeFile on token.json settles.  handleAuthCallback
\* (who = 0) succeeds or throws with it; refreshAccessToken resolves either
\* way, then uploadFile rebuilds the drive client and calls itself
TokenWritten(w) ==
  /\ w \in writes
  /\ pendingChecks = 0
  /\ writes' = writes \ {w}
  /\ diskToken' = IF tokenWritable THEN w.token ELSE diskToken
  /\ IF w.who = 0
       THEN /\ auth' = IF tokenWritable THEN "done" ELSE "failed"
            /\ reported' = IF tokenWritable
                              THEN [current |-> memToken, persisted |-> diskToken']
                              ELSE reported
            /\ UNCHANGED <<phase, response, unit, activeCount, queue, uploadedFiles,
                           failedUploads, logged, files, opens, driveInit>>
       ELSE /\ reported' = [current |-> memToken, persisted |-> diskToken']
            /\ Finish(w.who,
                      DriveEntered([unit[w.who] EXCEPT !.refreshes = Bump(@)],
                                   TRUE, TRUE, hasRefresh),
                      {}, files)
            /\ driveInit' = TRUE
            /\ UNCHANGED auth
  /\ UNCHANGED <<body, variant, cap, pendingChecks, store, hasAccess, hasRefresh,
                 memToken, tokenWritable>>
  /\ UNCHANGED listVars
  /\ UNCHANGED splitVars

\* the createdAt column of a new row: the time of its insert.  Rows are
\* inserted one at a time, and the rank of the insert stands for its time
CreatedAt(table) == Len(table) + 1

\* FileService.saveToDB: prisma.file.create adds one row
saveToDB_upsertByName(table, row) ==
  IF \E k \in 1..Len(table) : table[k].name = row.name
    THEN LET k == CHOOSE m \in 1..Len(table) : table[m].name = row.name
         IN [table EXCEPT ![k] = row]
  ELSE Append(table, row)
saveToDB(table, row) == Append(table, row)

\* prisma.file.create answers: the row exists and the temp file is unlinked,
\* or the insert failed
DbAnswers(i) ==
  /\ i \in DOMAIN unit
  /\ pendingChecks = 0
  /\ unit[i].pc = "db"
  /\ LET u   == unit[i]
         row == [id |-> Len(store) + 1, unit |-> i, call |-> u.calls,
                 name |-> extractFileNameFromUrl(body[i].url), size |-> u.size,
                 driveFileId |-> u.fileId, createdAt |-> CreatedAt(store)]
     IN IF body[i].db
          THEN /\ store' = saveToDB(store, row)
               /\ Finish(i, [u EXCEPT !.pc = "ok", !.file = row.id], {}, CleanedUp(i))
          ELSE /\ store' = store
               /\ Finish(i, Rejected(u, PlainError(MsgDbDown)), {}, CleanedUp(i))
  /\ UNCHANGED <<body, variant, cap, pendingChecks, hasAccess, hasRefresh, driveInit>>
  /\ UNCHANGED authVars
  /\ UNCHANGED listVars
  /\ UNCHANGED splitVars

\* the rows of the File table
Rows == {store[k] : k \in 1..Len(store)}

\* findMany's orderBy { createdAt: 'desc' } over a set of rows
RECURSIVE OrderByCreatedAtDesc(_)
OrderByCreatedAtDesc(rows) ==
  IF rows = {} THEN <<>>
  ELSE LET first == CHOOSE r \in rows : \A q \in rows : q.createdAt <= r.createdAt
       IN <<first>> \o OrderByCreatedAtDesc(rows \ {first})

\* FileService.getAllFiles: findMany without where, take or skip
getAllFiles_insertOrder == store
getAllFiles == OrderByCreatedAtDesc(Rows)

\* GET /files arrives and the query answers
GetFiles ==
  /\ lists > 0
  /\ pendingChecks = 0
  /\ lists' = lists - 1
  /\ listing' = getAllFiles
  /\ UNCHANGED splitVars
  /\ UNCHANGED <<body, variant, cap, phase, response, unit, activeCount, queue,
                 pendingChecks, uploadedFiles, failedUploads, store, logged, files,
                 opens, hasAccess, hasRefresh, driveInit>>
  /\ UNCHANGED authVars

Next ==
  \/ PostUpload
  \/ LimitCheck
  \/ \E path \in opens : FsOpen(path)
  \/ \E i \in 1..Len(body) : Resume(i)
  \/ \E i \in 1..Len(body) : StreamEnds(i)
  \/ \E i \in 1..Len(body) : DriveAnswers(i)
  \/ \E i \in 1..Len(body) : RefreshAnswers(i)
  \/ CodeExchanged
  \/ \E w \in writes : TokenWritten(w)
  \/ \E i \in 1..Len(body) : DbAnswers(i)
  \/ GetFiles

Spec == Init /\ [][Next]_vars
SpecUnit == InitUnit /\ [][Next]_vars
SpecLarge == InitLarge /\ [][Next]_vars
SpecList == InitList /\ [][Next]_vars
SpecReauth == InitReauth /\ [][Next]_vars

\* every pending I/O, timer and microtask is answered in the end; the
\* requests of the outside (the callback, GET /files) may never come
Responds ==
  /\ WF_vars(PostUpload)
  /\ WF_vars(LimitCheck)
  /\ \A i \in 1..MaxUrls :
       /\ WF_vars(\E path \in opens : path[1] = i /\ FsOpen(path))
       /\ WF_vars(Resume(i))
       /\ WF_vars(StreamEnds(i))
       /\ WF_vars(DriveAnswers(i))
       /\ WF_vars(RefreshAnswers(i))
       /\ WF_vars(DbAnswers(i))
  /\ \A k \in 0..MaxUrls : WF_vars(\E w \in writes : w.who = k /\ TokenWritten(w))
SpecLive == InitLive /\ [][Next]_vars /\ Responds

\* ------------------------------------------------ the retry loop on its own
\* processFileUpload / uploadSingleFileWithRetry with uploadSingleFile
\* replaced by a stub that throws, unwrapped, the error scripted for each
\* call, so that the loop meets every class of error its test looks for
LoopAnswers ==
  {Ok200, Http(503), Http(429), Http(404),
   Net("ECONNRESET"), Net("ETIMEDOUT"), Net("ECONNABORTED")}
LoopScripts == SeqsUpTo(LoopAnswers, MAX_RETRIES) \ {<<>>}
Thrown(item, call) ==
  LET a == AnswerAt(item, call)
  IN IF a.status # 0 THEN AxiosStatusError(a.status) ELSE AxiosNetworkError(a.code)

InitLoop ==
  /\ InitCommon
  /\ body \in {<<Item(UrlPdf, a, <<"id">>, TRUE, TRUE)>> : a \in LoopScripts}
  /\ cap = 1
  /\ hasAccess = TRUE
  /\ hasRefresh = TRUE
  /\ driveInit = TRUE
  /\ tokenWritable = TRUE
  /\ auth = "none"
  /\ lists = 0

\* the stubbed uploadSingleFile settles: the loop returns its result, or
\* its catch block runs on the error thrown
StubSettles(i) ==
  /\ i \in DOMAIN unit
  /\ pendingChecks = 0
  /\ unit[i].pc = "download"
  /\ LET u == unit[i]
         a == AnswerAt(body[i], u.calls)
     IN IF a.status >= 200 /\ a.status < 300
          THEN Finish(i, [u EXCEPT !.pc = "ok"], {}, files)
          ELSE Finish(i, Caught(u, Thrown(body[i], u.calls)), {}, files)
  /\ UNCHANGED <<body, variant, cap, pendingChecks, store, hasAccess, hasRefresh, driveInit>>
  /\ UNCHANGED authVars
  /\ UNCHANGED listVars
  /\ UNCHANGED splitVars

\* the setTimeout of the backoff wait fires
TimerFires(i) ==
  /\ i \in DOMAIN unit
  /\ unit[i].pc = "wait"
  /\ Resume(i)

NextLoop ==
  \/ PostUpload
  \/ LimitCheck
  \/ \E i \in 1..Len(body) : StubSettles(i)
  \/ \E i \in 1..Len(body) : TimerFires(i)

SpecLoop == InitLoop /\ [][NextLoop]_vars

\* ------------------------------------------- the limiter under several calls
\* FileService is one provider instance, and its constructor builds the
\* p-limit instance every uploadFiles call goes through.  Here further
\* uploadFiles calls arrive while earlier ones run: body, unit and queue hold
\* the URLs of all the calls in their order of arrival.  processFileUpload
\* is replaced by a stub that settles with the outcome of the URL's first
\* answer, and the answers of the calls are left out.
PoolItems == {Healthy(UrlPdf), NotFound(UrlPdf)}

InitPool ==
  /\ InitCommon
  /\ variant = "plimit"
  /\ body \in SeqsUpTo(PoolItems, MaxCap) \ {<<>>}
  /\ cap \in 1..MaxCap
  /\ hasAccess = TRUE
  /\ hasRefresh = TRUE
  /\ driveInit = TRUE
  /\ tokenWritable = TRUE
  /\ auth = "none"
  /\ lists = 0

\* the limiter a call of uploadFiles enqueues on: this.limit, whose count of
\* running units is the one every earlier call has left
limit_perCall(active) == 0
limit(active) == active

\* a further POST /files/upload reaches uploadFiles, which passes its checks
\* and hands one function per URL to the limiter
UploadFilesAgain(fileUrls) ==
  /\ phase = "running"
  /\ pendingChecks = 0
  /\ Len(body) + Len(fileUrls) <= MaxPool
  /\ DtoOutcome(fileUrls).status = 0
  /\ ValidateRejection(fileUrls).status = 0
  /\ body' = body \o fileUrls
  /\ unit' = unit \o [k \in 1..Len(fileUrls) |-> NewUnit]
  /\ queue' = queue \o [k \in 1..Len(fileUrls) |-> Len(body) + k]
  /\ pendingChecks' = pendingChecks + Len(fileUrls)
  /\ activeCount' = limit(activeCount)
  /\ UNCHANGED <<variant, cap, phase, response, uploadedFiles, failedUploads, store,
                 logged, files, opens, hasAccess, hasRefresh, driveInit>>
  /\ UNCHANGED authVars
  /\ UNCHANGED listVars
  /\ UNCHANGED splitVars

\* the stubbed processFileUpload of a running unit settles; p-limit's next()
\* then gives its place to the head of the queue, if any
PoolSettles(i) ==
  /\ i \in DOMAIN unit
  /\ pendingChecks = 0
  /\ unit[i].pc = "download"
  /\ LET a     == AnswerAt(body[i], unit[i].calls)
         done  == IF a.status >= 200 /\ a.status < 300 THEN "ok" ELSE "failed"
         unit1 == [unit EXCEPT ![i].pc = done]
     IN IF queue # <<>>
          THEN /\ unit' = [unit1 EXCEPT ![Head(queue)] = Begin(@)]
               /\ queue' = Tail(queue)
               /\ opens' = opens \cup Pending({<<Head(queue), 1>>})
               /\ files' = files \cup Opened({<<Head(queue), 1>>})
               /\ UNCHANGED activeCount
          ELSE /\ unit' = unit1
               /\ activeCount' = activeCount - 1
               /\ UNCHANGED <<queue, opens, files>>
  /\ UNCHANGED <<body, variant, cap, phase, response, pendingChecks, uploadedFiles,
                 failedUploads, store, logged, hasAccess, hasRefresh, driveInit>>
  /\ UNCHANGED authVars
  /\ UNCHANGED listVars
  /\ UNCHANGED splitVars

NextPool ==
  \/ PostUpload
  \/ \E fileUrls \in SeqsUpTo(PoolItems, MaxCap) \ {<<>>} : UploadFilesAgain(fileUrls)
  \/ LimitCheck
  \/ \E i \in 1..MaxPool : PoolSettles(i)

SpecPool == InitPool /\ [][NextPool]_vars

\* ------------------------------------------------- the batch-splitting loop
\* The loop of the fixed-batch uploadFiles, one iteration at a time, for
\* every MAX_CONCURRENT_UPLOADS from 0 on: parseInt accepts "0", and nothing
\* between the constructor and the loop looks at the value.
SplitItems == {Healthy(UrlPdf), NotFound(UrlPdf), OpenLate(Healthy(UrlPdf))}

InitSplit ==
  /\ InitCommon
  /\ variant = "batch"
  /\ body \in SeqsUpTo(SplitItems, MaxUrls) \ {<<>>}
  /\ cap \in 0..MaxCap
  /\ hasAccess = TRUE
  /\ hasRefresh = TRUE
  /\ driveInit = TRUE
  /\ tokenWritable = TRUE
  /\ auth = "none"
  /\ lists = 0

\* one iteration: for (let i = 0; i < fileUrls.length; i += batchSize) with
\* its body, which slices the batch, calls uploadSingleFileWithRetry on each
\* of its URLs and pushes the batch's Promise.all
SplitStep ==
  /\ phase = "pending"
  /\ DtoOutcome(body).status = 0
  /\ batchStart < Len(body)
  /\ Len(batches) < MaxSplit
  /\ LET batch   == Slice(Len(body), batchStart, batchStart + cap)
         started == {<<batch[k], 1>> : k \in 1..Len(batch)}
     IN /\ batches' = Append(batches, batch)
        /\ unit' = unit \o [k \in 1..Len(batch) |-> Begin(NewUnit)]
        /\ opens' = opens \cup Pending(started)
        /\ files' = files \cup Opened(started)
  /\ batchStart' = batchStart + cap
  /\ UNCHANGED <<body, variant, cap, phase, response, activeCount, queue, pendingChecks,
                 uploadedFiles, failedUploads, store, logged, hasAccess, hasRefresh,
                 driveInit>>
  /\ UNCHANGED authVars
  /\ UNCHANGED listVars

\* the loop's test fails: uploadFiles goes on to await the first batch
SplitEnds ==
  /\ phase = "pending"
  /\ DtoOutcome(body).status = 0
  /\ ~(batchStart < Len(body))
  /\ phase' = "running"
  /\ UNCHANGED <<body, variant, cap, response, unit, activeCount, queue, pendingChecks,
                 uploadedFiles, failedUploads, store, logged, files, opens, hasAccess,
                 hasRefresh, driveInit>>
  /\ UNCHANGED authVars
  /\ UNCHANGED listVars
  /\ UNCHANGED splitVars

NextSplit == SplitStep \/ SplitEnds

SpecSplit == InitSplit /\ [][NextSplit]_vars

\* ------------------------------------------------------------------ claims
Units == DOMAIN unit
Running == {i \in Units : InFlight(unit[i])}
\* the environment of unit i is healthy apart from its download server
OnlyDownloadFaulty(i) ==
  body[i].drive = <<"id">> /\ body[i].db /\ body[i].refreshOk /\ hasAccess
\* the download script answers nothing but transient errors
Transient(a) == a.code \in RetryableCodes \/ a.status \in RetryableStatuses
AlwaysTransient(i) ==
  \A k \in 1..Len(body[i].answers) :
    Transient(body[i].answers[k]) /\ ~body[i].answers[k].partial
\* the first download answer is an error outside the transient set
FirstAnswerPermanent(i) ==
  LET a == body[i].answers[1]
  IN ~Transient(a) /\ ~(a.status >= 200 /\ a.status < 300)

\* C1: in the p-limit variant, whatever the batch size N and the cap C, at
\* most C per-URL units of the batch are in flight in every reachable state.
C1_AtMostCapInFlight ==
  variant = "plimit" => Cardinality(Running) <= cap
C1_Witness ==
  /\ variant = "plimit"
  /\ Len(body) > cap
  /\ Cardinality(Running) = cap
  /\ queue # <<>>
  /\ pendingChecks = 0

\* C2: a URL answering 503, 503, 200 ends in success after exactly two
\* retries, the first wait 1000 ms, the second at least twice the first,
\* both at most 60000 ms.
C2_FlakyUrlSucceedsAfterTwoRetries ==
  \A i \in Units :
    (/\ body[i].answers = <<Http(503), Http(503), Ok200>>
     /\ OnlyDownloadFaulty(i)
     /\ Settled(unit[i]))
    => /\ unit[i].pc = "ok"
       /\ unit[i].calls = 3
       /\ Len(unit[i].waits) = 2
       /\ unit[i].waits[1] = INITIAL_BACKOFF_TIME
       /\ unit[i].waits[2] >= 2 * unit[i].waits[1]
       /\ unit[i].waits[2] <= MAX_BACKOFF_TIME

\* C3: a URL whose every download attempt fails with a transient error is
\* attempted exactly 3 times, with 2 backoff waits, and only then fails.
C3_TransientFailsAfterThreeAttempts ==
  \A i \in Units :
    (AlwaysTransient(i) /\ Settled(unit[i]))
    => /\ unit[i].pc = "failed"
       /\ unit[i].calls = MAX_RETRIES
       /\ Len(unit[i].waits) = MAX_RETRIES - 1

C5_PartialSuccessReturnsSuccesses ==
  (/\ variant = "plimit"
   /\ Units # {}
   /\ \A i \in Units : Settled(unit[i])
   /\ \E i \in Units : unit[i].pc = "ok"
   /\ \E i \in Units : unit[i].pc = "failed")
  => /\ phase = "responded"
     /\ response.status = CREATED
     /\ response.records = Files(unit, 1)
     /\ \A i \in Units : unit[i].pc = "failed" => i \in logged

\* C6: a non-empty batch in which every item fails is answered 400, in both
\* variants, and no FileRecord of the batch is inserted.
C6_AllFailedIsBadRequest ==
  (Units # {} /\ \A i \in Units : unit[i].pc = "failed")
  => /\ phase = "responded"
     /\ response.status = BAD_REQUEST
     /\ \A r \in Rows : r.unit \notin Units
C6_Witness ==
  /\ variant = "batch"
  /\ Len(body) >= 2
  /\ \A i \in Units : unit[i].pc = "failed"
  /\ Units # {}
  /\ Len(failedUploads) = Len(body)

\* C7: every FileRecord was inserted after the provider returned a non-empty
\* file id for a completed download of that item; an item whose download
\* failed or was partial, or whose provider response had no id, has none.
C7_RecordOnlyAfterProviderId ==
  /\ \A r \in Rows :
       /\ r.driveFileId # NoId
       /\ unit[r.unit].downloaded
       /\ unit[r.unit].driveCalls >= 1
       /\ unit[r.unit].fileId = r.driveFileId
       /\ AnswerAt(body[r.unit], r.call) = Ok200
       /\ DriveAnswerAt(body[r.unit], unit[r.unit].driveCalls) = "id"
  /\ \A i \in Units :
       (\/ body[i].answers[1] # Ok200
        \/ body[i].drive[Len(body[i].drive)] = "noid")
       => \A r \in Rows : r.unit # i
C7_Witness ==
  \E r \in Rows : unit[r.unit].pc = "ok" /\ unit[r.unit].refreshes >= 1

\* C8: on an authentication error uploadFile refreshes the token exactly
\* once and retries the upload exactly once; if the retry fails too, the
\* call ends with the re-authentication-required error, without a second
\* refresh or a further retry.
\* the authentication errors of unit i came from the provider's answers to
\* files.create, not from a missing access token
FromProvider(i) == unit[i].driveCalls > unit[i].refreshes
C8_OneRefreshOneRetry ==
  \A i \in Units :
    FromProvider(i)
    => /\ unit[i].refreshes <= 1
       /\ unit[i].driveCalls <= 2
       /\ (unit[i].refreshes = 1 /\ unit[i].pc = "failed"
             => unit[i].lastError.msg = "Failed to upload file: " \o MsgAuthExpired)

\* C9: on every exit path of uploadSingleFile the temp file of the call does
\* not exist once the call has completed and its pending file-system events
\* have been processed.
CallCompleted(i, c) ==
  c < unit[i].calls \/ (c = unit[i].calls /\ unit[i].pc \in {"ok", "failed", "wait"})
C9_TempFileRemoved ==
  \A i \in Units : \A c \in 1..unit[i].calls :
    (CallCompleted(i, c) /\ <<i, c>> \notin opens) => <<i, c>> \notin files

\* C10: if any URL of the batch fails validation (the DTO's, or
\* validateFileUrls where the service has it), no download is started for
\* any URL of the batch, no FileRecord is created, and the answer is an error.
FailsValidation(u) ==
  \/ DtoTransformError(u) # ""
  \/ ~IsUrl(u)
  \/ variant = "plimit" /\ ServiceReason(u) # ""
C10_InvalidUrlRejectsBatch ==
  (\E k \in 1..Len(body) : FailsValidation(body[k].url))
  => /\ unit = <<>>
     /\ store = <<>>
     /\ files = {} /\ opens = {}
     /\ phase = "responded" => response.status \in {BAD_REQUEST, INTERNAL_SERVER_ERROR}
C10_Witness ==
  /\ phase = "responded"
  /\ Len(body) >= 2
  /\ ~FailsValidation(body[1].url)
  /\ \E k \in 1..Len(body) : FailsValidation(body[k].url) /\ DtoTransformError(body[k].url) = ""
  /\ response.status = BAD_REQUEST
  /\ response.details # {}

\* C11: every URL of a batch that lacks an extension or bears a disallowed
\* or dangerous one is listed, with a reason, in the details of the 400
\* answer; none is omitted when the batch holds several.
Offending(u) ==
  \/ DtoTransformError(u) # ""
  \/ variant = "plimit" /\ ServiceReason(u) \notin {"", "Invalid URL format"}
C11_EveryOffendingUrlReported ==
  (phase = "responded" /\ \E k \in 1..Len(body) : Offending(body[k].url))
  => /\ response.status = BAD_REQUEST
     /\ \A k \in 1..Len(body) :
          Offending(body[k].url)
          => \E d \in response.details : d.url = k /\ d.reason # ""

\* C12: a request with an empty URL list is answered 400, and no download,
\* provider call or insert is started for it, in both variants.
C12_EmptyBatchIsBadRequest ==
  Len(body) = 0
  => /\ unit = <<>> /\ queue = <<>> /\ pendingChecks = 0
     /\ store = <<>>
     /\ files = {} /\ opens = {}
     /\ phase = "responded" => response.status = BAD_REQUEST
C12_Witness ==
  /\ Len(body) = 0
  /\ variant = "batch"
  /\ phase = "responded"
  /\ response.status = BAD_REQUEST

\* C13: a request with more than 10 URLs is answered 400 and starts no
\* download.
C13_OversizeBatchIsBadRequest ==
  Len(body) > ArrayMaxSize
  => /\ unit = <<>> /\ queue = <<>>
     /\ files = {} /\ opens = {}
     /\ store = <<>>
     /\ phase = "responded" => response.status = BAD_REQUEST

\* C14: for every successful upload the size stored in the FileRecord is
\* the number of bytes written to the temp file, also when the declared
\* content-length is absent or different, and getAllFiles returns the record.
C14_StoredSizeIsBytesWritten ==
  \A i \in Units :
    unit[i].pc = "ok"
    => \E k \in 1..Len(getAllFiles) :
         /\ getAllFiles[k].id = unit[i].file
         /\ getAllFiles[k].unit = i
         /\ getAllFiles[k].size = body[i].bytes
C14_Witness ==
  \E i \in Units :
    /\ unit[i].pc = "ok"
    /\ body[i].declared # body[i].bytes
    /\ \E k \in 1..Len(getAllFiles) :
         getAllFiles[k].unit = i /\ getAllFiles[k].size = body[i].bytes

\* C15: a URL whose file is larger than MAX_FILE_SIZE makes uploadFiles
\* fail; such a file never ends as a successful upload.
C15_OversizeFileIsRefused ==
  \A i \in Units :
    (body[i].bytes > MAX_FILE_SIZE \/ body[i].declared > MAX_FILE_SIZE)
    => /\ unit[i].pc # "ok"
       /\ \A r \in Rows : r.unit # i
       /\ phase = "responded" => response.status = BAD_REQUEST

\* C16: for a batch in which every URL downloads, uploads and is inserted
\* at the first go, uploadFiles returns one FileRecord per input URL, and
\* the provider upload and the insert are each invoked exactly once per URL.
AllHealthy ==
  /\ Units # {}
  /\ \A i \in Units :
       body[i].answers = <<Ok200>> /\ body[i].drive = <<"id">> /\ body[i].db
RowsOf(i) == {r \in Rows : r.unit = i}
C16_OneRecordPerUrl ==
  AllHealthy
  => /\ \A i \in Units :
          /\ unit[i].calls <= 1 /\ unit[i].driveCalls <= 1
          /\ Cardinality(RowsOf(i)) <= 1
     /\ phase = "responded"
        => /\ response.status = CREATED
           /\ Len(response.records) = Len(body)
           /\ \A i \in Units :
                /\ unit[i].driveCalls = 1
                /\ Cardinality(RowsOf(i)) = 1
                /\ \E k \in 1..Len(response.records) :
                     response.records[k] = unit[i].file
                     /\ store[unit[i].file].unit = i
C16_Witness ==
  /\ AllHealthy
  /\ Len(body) = MaxUrls
  /\ cap < Len(body)
  /\ phase = "responded"
  /\ response.status = CREATED
  /\ Len(response.records) = Len(body)

\* C17: while the credentials hold no refresh token and no authorization
\* code has been exchanged, every upload that meets an authentication error
\* (from the provider, or for want of an access token) fails with the
\* re-authentication-required error, without a refresh, and no FileRecord
\* is created for it.
NoReauthYet == ~hasRefresh /\ auth \in {"none", "code"}
MetAuthError(i) ==
  /\ unit[i].downloaded
  /\ unit[i].pc # "drive"
  /\ unit[i].driveCalls = 0 \/ DriveAnswerAt(body[i], 1) = "auth"
C17_StuckUntilReauthenticated ==
  NoReauthYet
  => \A i \in Units :
       /\ unit[i].pc \notin {"refresh", "save"}
       /\ unit[i].refreshes = 0
       /\ MetAuthError(i)
          => /\ unit[i].pc = "failed"
             /\ unit[i].lastError.msg = "Failed to upload file: " \o MsgAuthExpired
             /\ RowsOf(i) = {}
C17_Witness ==
  /\ NoReauthYet
  /\ hasAccess
  /\ \E i \in Units :
       /\ unit[i].driveCalls = 1
       /\ MetAuthError(i)
       /\ unit[i].pc = "failed"

\* C18: token refreshes are serialized: in every reachable state at most
\* one refreshAccessToken exchange is in progress, and token.json is never
\* being written by two refreshes at once.
Refreshing == {i \in Units : unit[i].pc \in {"refresh", "save"}}
C18_RefreshesSerialized ==
  /\ Cardinality(Refreshing) <= 1
  /\ Cardinality({w \in writes : w.who # 0}) <= 1

\* C19: whenever a token refresh or an authorization-code exchange reports
\* success, token.json holds the same tokens as the in-memory credentials.
C19_PersistedTokenIsCurrent ==
  reported.persisted = reported.current

\* C20: local recovery is attempted only for the two designated error
\* classes. A token refresh starts only on an authentication error (the
\* provider's 401, or the missing credentials getAuthClient reports), a
\* further download attempt only after a transient transport answer; a
\* provider error that is no authentication error, a response without file
\* id and a failed insert leave the unit failed with that error, with no
\* refresh in progress and no further attempt.
LastDriveAnswer(i) == DriveAnswerAt(body[i], unit[i].driveCalls)
Propagated(i, m) ==
  /\ unit[i].lastError.msg = "Failed to upload file: " \o m
  /\ unit[i].calls = 1
  /\ unit[i].attempt = 0
  /\ unit[i].waits = <<>>
  /\ RowsOf(i) = {}
C21_RecordsInsertOnly ==
  [][/\ Len(store') >= Len(store)
     /\ SubSeq(store', 1, Len(store)) = store
     /\ lists' # lists => store' = store]_vars
C21_Witness ==
  /\ Len(store) >= 2
  /\ Len(listing) >= 1
  /\ Len(listing) < Len(store)
  /\ lists = 0

\* C22: the answer of every GET /files holds every row of the store, each
\* once, none left out, the row created last first and the others in
\* descending order of creation time.
C22_ListsAllNewestFirst ==
  [][lists' < lists
       => /\ Len(listing') = Len(store)
          /\ {listing'[k] : k \in 1..Len(listing')} = Rows
          /\ \A k \in 1..(Len(listing') - 1) :
               listing'[k].createdAt > listing'[k + 1].createdAt
          /\ store # <<>> => listing'[1] = store[Len(store)]]_vars
C22_Witness ==
  /\ Len(listing) >= 2
  /\ listing[1].createdAt > listing[2].createdAt
  /\ listing[1].unit # listing[2].unit

\* C24: in the fixed-batch variant the batches of MAX_CONCURRENT_UPLOADS
\* URLs run one after the other: no unit of a later batch has begun a
\* download while a unit of an earlier batch is unsettled, so at most
\* MAX_CONCURRENT_UPLOADS units are in flight in every reachable state.
BatchOf(i) == ((i - 1) \div cap) + 1
C24_BatchesSequential ==
  variant = "batch"
  => /\ \A i, j \in Units :
          BatchOf(i) < BatchOf(j) /\ unit[j].calls > 0 => Settled(unit[i])
     /\ Cardinality(Running) <= cap

\* C25: in the fixed-batch variant a failing URL never aborts the others:
\* when the request is answered every URL of the body has run to its end,
\* the answer holds exactly the records of the URLs that succeeded as soon
\* as one did, and every failed URL is in failedUploads with its reason
\* and in the error log.
Succeeded == {i \in Units : unit[i].pc = "ok"}
Failed == {i \in Units : unit[i].pc = "failed"}
C25_BatchFailureAbortsNothing ==
  variant = "batch" /\ phase = "responded" /\ Units # {}
  => /\ Units = 1..Len(body)
     /\ Units = Succeeded \cup Failed
     /\ Succeeded # {}
          => /\ response.status = CREATED
             /\ Len(response.records) = Cardinality(Succeeded)
             /\ {response.records[k] : k \in 1..Len(response.records)}
                  = {unit[i].file : i \in Succeeded}
     /\ Len(failedUploads) = Cardinality(Failed)
     /\ \A i \in Failed :
          /\ \E k \in 1..Len(failedUploads) :
               failedUploads[k] = [url |-> i, reason |-> unit[i].lastError.msg]
          /\ i \in logged
C25_Witness ==
  /\ variant = "batch"
  /\ phase = "responded"
  /\ Succeeded # {}
  /\ Failed # {}
  /\ \E i \in Failed, j \in Succeeded : i < j

\* C26: in every execution of the per-URL retry loop uploadSingleFile is
\* called at most MAX_RETRIES (3) times with at most 2 backoff waits, the
\* k-th wait lasts min(1000 * 2^(k-1), 60000) ms, a wait is always followed
\* by a further attempt (none follows the last failed one), and the error
\* thrown in the end is the error of the last attempt made.
RECURSIVE Pow2(_)
Pow2(k) == IF k = 0 THEN 1 ELSE 2 * Pow2(k - 1)
C26_RetryLoopShape ==
  \A i \in Units :
    /\ unit[i].calls <= MAX_RETRIES
    /\ Len(unit[i].waits) <= MAX_RETRIES - 1
    /\ \A k \in 1..Len(unit[i].waits) :
         unit[i].waits[k] = Min(INITIAL_BACKOFF_TIME * Pow2(k - 1), MAX_BACKOFF_TIME)
    /\ unit[i].pc = "wait"
         => unit[i].calls < MAX_RETRIES /\ Len(unit[i].waits) = unit[i].calls
    /\ unit[i].pc = "failed"
         => /\ Len(unit[i].waits) = unit[i].calls - 1
            /\ unit[i].lastError = Thrown(body[i], unit[i].calls)
C26_Witness ==
  \E i \in Units :
    /\ unit[i].pc = "failed"
    /\ unit[i].calls = MAX_RETRIES
    /\ unit[i].waits = <<1000, 2000>>
    /\ body[i].answers = <<Http(503), Net("ECONNRESET"), Http(429)>>
    /\ unit[i].lastError = AxiosStatusError(429)

\* C27: once handleAuthCallback has completed successfully, an upload that
\* reaches GoogleDriveService.uploadFile obtains a drive client and issues
\* files.create, also in a service that started without saved token and
\* whose drive client was not built at startup: no restart is needed.
C27_UploadsAfterCallback ==
  [][\A i \in DOMAIN unit :
       (/\ auth = "done"
        /\ unit[i].pc = "stream"
        /\ unit'[i].pc # "stream"
        /\ ~AnswerAt(body[i], unit[i].calls).partial)
       => /\ unit'[i].pc = "drive"
          /\ unit'[i].driveCalls = 1
          /\ driveInit']_vars
C27_Witness ==
  /\ auth = "done"
  /\ \E i, j \in Units :
       /\ unit[i].pc = "failed"
       /\ unit[i].driveCalls = 0
       /\ unit[i].lastError.msg = "Failed to upload file: " \o MsgAuthExpired
       /\ unit[j].pc = "ok"
       /\ unit[j].refreshes = 0
       /\ unit[j].driveCalls = 1

\* C28: every uploadFiles call on a validated body of 1 to 10 URLs is
\* answered in the end when every download, provider call, token refresh
\* and insert is; no unit goes on for ever between authentication errors
\* of the provider and granted token refreshes.
C28_EveryRequestCompletes == <>(phase = "responded")

\* C29: in the p-limit variant, once uploadFiles has answered (records or
\* a 400) no URL of the body is queued or in flight and no record of the
\* request is inserted any more; a request answered 400 has no record.
C29_NothingRunsAfterTheAnswer ==
  variant = "plimit" /\ phase = "responded"
  => /\ \A i \in Units : Settled(unit[i])
     /\ response.status = BAD_REQUEST => Rows = {}

\* C30: once the request is answered and every URL has settled, each file
\* the provider accepted (returned an id for) has its FileRecord, and a URL
\* that uploadSingleFile reported as failed has no file at the provider.
Accepted == {i \in Units : unit[i].fileId # NoId}
C30_NoOrphanProviderFile ==
  phase = "responded" /\ (\A i \in Units : Settled(unit[i]))
  => /\ \A i \in Accepted : \E r \in Rows : r.driveFileId = unit[i].fileId
     /\ \A i \in Failed : i \notin Accepted

\* C31: no download is started for a URL whose path's file name bears a
\* deny-listed extension, whatever its query string or fragment holds: the
\* extension the DTO examines and that of the path's file name lead to the
\* same decision before any download.
PathExtension(u) ==
  LET fileExtension == LowerAll(extname(extractFileNameFromUrl(u)))
  IN IF Len(fileExtension) = 2 THEN fileExtension[2] ELSE ""
C31_NoDownloadOfDenyListedFile ==
  \A i \in Units :
    unit[i].calls > 0 => PathExtension(body[i].url) \notin DANGEROUS_FILE_EXTENSIONS

\* C32: the two validation layers agree on the extensions: a URL whose
\* extension the DTO's allow-list admits is admitted by validateFileUrls
\* too, and one validateFileUrls admits is admitted by the DTO (for URLs
\* where both layers examine the same extension).
SameExtension(u) == IsUrl(u) /\ DtoExtension(u) = <<PathExtension(u)>>
C32_ValidationLayersAgree ==
  variant = "plimit" /\ phase = "responded"
  => \A k \in 1..Len(body) :
       SameExtension(body[k].url)
       => /\ DtoOutcome(body).status = 0 => ~\E d \in response.details : d.url = k
          /\ ServiceReason(body[k].url) = "" => DtoTransformError(body[k].url) = ""

\* C33: when handleAuthCallback fails, because the code exchange fails or
\* because the token file cannot be written, the credentials in memory are
\* those from before the call: a service that started without credentials
\* and answered the callback with the error page is not authenticated.
C33_FailedCallbackLeavesCredentials ==
  auth = "failed" => ~hasAccess /\ ~hasRefresh /\ memToken = 0

\* C34: in the p-limit variant the cap is global to the service instance:
\* whatever number of uploadFiles calls run concurrently, the units in
\* flight over all of them never exceed MAX_CONCURRENT_UPLOADS, and a
\* queued unit is started as soon as a running one completes: none stays
\* queued while the limiter has room.
C34_CapIsGlobal ==
  /\ Cardinality(Running) <= cap
  /\ activeCount = Cardinality(Running)
  /\ queue # <<>> /\ pendingChecks = 0 => Cardinality(Running) = cap
  /\ \A k \in 1..Len(queue) : unit[queue[k]].pc = "queued"
  /\ \A i \in Units : unit[i].pc = "queued" => \E k \in 1..Len(queue) : queue[k] = i
C34_Witness ==
  /\ Len(body) > MaxCap
  /\ Cardinality(Running) = cap
  /\ 1 \in Running
  /\ \E i \in Running : i > MaxCap
  /\ queue # <<>>
  /\ \E i \in Units : Settled(unit[i])
  /\ pendingChecks = 0

\* C35: in the fixed-batch variant, for every MAX_CONCURRENT_UPLOADS from 0
\* on and every URL list, the splitting loop ends, within as many
\* iterations as there are URLs, and has then put every URL in exactly one
\* batch; each batch holds at most MAX_CONCURRENT_UPLOADS URLs, in input
\* order.
RECURSIVE Flat(_)
Flat(bs) == IF bs = <<>> THEN <<>> ELSE Head(bs) \o Flat(Tail(bs))
C35_SplitTerminatesAndPartitions ==
  variant = "batch"
  => /\ \A b \in 1..Len(batches) : Len(batches[b]) <= cap
     /\ Flat(batches) = [k \in 1..Min(batchStart, Len(body)) |-> k]
     /\ Len(batches) <= Len(body)
     /\ phase # "pending" => Flat(batches) = [k \in 1..Len(body) |-> k]
====
